---- MODULE Spec2Model ----
\* A model of gcp_extract_load.py: main() = extract() then load(), where extract()
\* fetches the ThingSpeak credentials from the Purple API, builds a ThingSpeak
\* instance, and fetches and reshapes the four channel feeds, every fetch being
\* wrapped in retry(Exception, tries=3, delay=1, backoff=5).
EXTENDS Integers, Sequences, FiniteSets, TLC

\* ------------------------------------------------------------------ bounds
\* The largest number of elements of a channel response's `feeds` array.
MaxFeeds == 2

\* ------------------------------------------------- the retry decorator's arguments
Tries == 3
Delay == 1
Backoff == 5

\* ---------------------------------------------------------------- state
VARIABLES
  pc,          \* where main() is: "start", "get_keys", "from_dict", "feeds",
               \* "get_feed", "load", "done", "raised"
  tries,       \* the running retry loop's _tries
  delay,       \* the running retry loop's _delay
  response,    \* the last HTTP response of the running fetch
  sensor,      \* extract's purple_air_response
  thingspeak,  \* extract's ThingSpeak instance
  idx,         \* the position of ThingSpeak.feeds in self.urls
  extracted,   \* the list ThingSpeak.feeds has built so far
  error,       \* the exception that left main(), "none" otherwise
  result,      \* main's return value, "none" before
  load_calls,  \* how many times load() was called
  fetched,     \* history: the URLs requested, each once, in the order of their
               \* first request
  nreq,        \* history: how many times requests.get was called
  succeeded,   \* history: how many fetches returned
  attempts,    \* history: the executions of the running fetch's body, each of
               \* which calls requests.get once
  sleeps,      \* history: the time.sleep calls of the running fetch
  log,         \* history: the debug entries of the running fetch
  returned,    \* history: the `feeds` array the API returned, by channel id
  response_in, \* get_feed's reshaping alone: the response body
  feeds_out    \* get_feed's reshaping alone: what it returns

vars ==
  <<pc, tries, delay, response, sensor, thingspeak, idx, extracted, error, result,
    load_calls, fetched, nreq, succeeded, attempts, sleeps, log, returned, response_in, feeds_out>>

\* ------------------------------------------------------------- JSON values
\* A JSON scalar is its type and its text; a dict is a function on a set of strings.
JInt(s) == [t |-> "int", v |-> s]
JStr(s) == [t |-> "str", v |-> s]
EmptyDict == [k \in {} |-> ""]

\* f"{x}": str() of an integer is its decimal text, of a string the string itself.
Format(x) == x.v

\* Python's {**a, **b}: the keys of both, b's value on a key of both.
MergeDict(a, b) ==
  [k \in (DOMAIN a) \cup (DOMAIN b) |-> IF k \in DOMAIN b THEN b[k] ELSE a[k]]

\* Python's k[:n]
Prefix(k, n) == SubSeq(k, 1, IF Len(k) < n THEN Len(k) ELSE n)

\* ------------------------------------------------------ class ThingSpeak
\* signature(self).parameters: the dataclass's fields.
Params ==
  {"primary_id_a", "primary_key_a", "primary_id_b", "primary_key_b",
   "secondary_id_a", "secondary_key_a", "secondary_id_b", "secondary_key_b"}

\* {k: v for k, v in input.items() if k in signature(self).parameters}
FromDictKwargs(input) == [k \in (DOMAIN input) \cap Params |-> input[k]]

\* self(**kwargs): the generated __init__ raises TypeError when a field without a
\* default gets no argument; it checks no annotation.
InitAccepts(kwargs) == Params \subseteq DOMAIN kwargs

\* The pairs in the order the dataclass declares its fields.
IdKeyPairsDeclared(ts) ==
  << <<ts["primary_id_a"], ts["primary_key_a"]>>,
     <<ts["primary_id_b"], ts["primary_key_b"]>>,
     <<ts["secondary_id_a"], ts["secondary_key_a"]>>,
     <<ts["secondary_id_b"], ts["secondary_key_b"]>> >>

IdKeyPairs(ts) ==
  << <<ts["primary_id_a"], ts["primary_key_a"]>>,
     <<ts["secondary_id_a"], ts["secondary_key_a"]>>,
     <<ts["primary_id_b"], ts["primary_key_b"]>>,
     <<ts["secondary_id_b"], ts["secondary_key_b"]>> >>

\* f"{base_url}/{id}/feeds.json?api_key={key}", as the parts that vary.
ChannelUrl(id, key) == [api |-> "thingspeak", id |-> Format(id), key |-> Format(key)]

Urls(ts) ==
  [i \in 1..Len(IdKeyPairs(ts)) |-> ChannelUrl(IdKeyPairs(ts)[i][1], IdKeyPairs(ts)[i][2])]

\* The Purple API URL of sensor 20957.
PurpleUrl == [api |-> "purpleair", id |-> "20957", key |-> "PURPLE_API_KEY"]

\* ------------------------------------------------- get_feed's reshaping
\* {f"{k}_name": v for k, v in response["channel"].items() if k[:5] == "field"}
FieldKeys(channel) == {k \in DOMAIN channel : Prefix(k, 5) = "field"}

FieldNames(channel) ==
  [n \in {k \o "_name" : k \in FieldKeys(channel)} |->
     channel[CHOOSE k \in FieldKeys(channel) : k \o "_name" = n]]

\* {"name": response["channel"]["name"]}
ChannelName(channel) == [k \in {"name"} |-> channel["name"]]

\* {**feed, **channel_name, **field_names}: the metadata over the feed element.
FeedRecordMetaWins(channel, feed) ==
  MergeDict(feed, MergeDict(ChannelName(channel), FieldNames(channel)))

\* {**channel_name, **field_names, **feed}
FeedRecord(channel, feed) ==
  MergeDict(MergeDict(ChannelName(channel), FieldNames(channel)), feed)

\* [{**channel_name, **field_names, **feed} for feed in response["feeds"]]
FeedsOf(body) ==
  [i \in 1..Len(body["feeds"]) |-> FeedRecord(body["channel"], body["feeds"][i])]

\* What one execution of get_feed's body does with the HTTP response: the
\* exception it raises ("none" when it returns) and the value it returns.
GetFeedBody(resp) ==
  IF resp.kind = "transport" THEN [exc |-> "ConnectionError", val |-> <<>>]
  ELSE IF resp.kind = "status" THEN [exc |-> "HTTPError", val |-> <<>>]
  ELSE IF resp.kind = "invalid_json" THEN [exc |-> "JSONDecodeError", val |-> <<>>]
  ELSE IF "channel" \notin DOMAIN resp.body THEN [exc |-> "KeyError", val |-> <<>>]
  ELSE IF "name" \notin DOMAIN resp.body["channel"] THEN [exc |-> "KeyError", val |-> <<>>]
  ELSE IF "feeds" \notin DOMAIN resp.body THEN [exc |-> "KeyError", val |-> <<>>]
  ELSE [exc |-> "none", val |-> FeedsOf(resp.body)]

\* One execution of get_keys_from_purple's body.
GetKeysBody(resp) ==
  IF resp.kind = "transport" THEN [exc |-> "ConnectionError", val |-> EmptyDict]
  ELSE IF resp.kind = "status" THEN [exc |-> "HTTPError", val |-> EmptyDict]
  ELSE IF resp.kind = "invalid_json" THEN [exc |-> "JSONDecodeError", val |-> EmptyDict]
  ELSE IF "sensor" \notin DOMAIN resp.body THEN [exc |-> "KeyError", val |-> EmptyDict]
  ELSE [exc |-> "none", val |-> resp.body["sensor"]]

\* The debug entries of get_feed were the first written once per call, on the
\* first pass only, instead of on every pass of the retried body.
GetFeedLogOncePerCall(resp) ==
  (IF attempts = 0 THEN <<"fetching">> ELSE <<>>)
  \o (IF GetFeedBody(resp).exc = "none" THEN <<"retrieved">> ELSE <<>>)

\* The debug entries of one execution of get_feed's body: the first on entry, the
\* second as the last statement before `return feeds`.
GetFeedLog(resp) ==
  IF GetFeedBody(resp).exc = "none" THEN <<"fetching", "retrieved">> ELSE <<"fetching">>

\* The debug entries of one execution of get_keys_from_purple's body: the second
\* follows raise_for_status() and precedes response.json()["sensor"].
GetKeysLog(resp) ==
  IF resp.kind \in {"transport", "status"} THEN <<"fetching">>
  ELSE <<"fetching", "retrieved">>

\* ------------------------------------------------------- the retry loop
\* retry(requests.RequestException, ...): only the HTTP failures are caught.
CaughtRequestsOnly(exc) == exc \in {"ConnectionError", "HTTPError"}

\* retry(Exception, ...): every exception the body raises is caught.
Caught(exc) == exc # "none"

\* A loop that gives up with one try left.
ExhaustedEarly(t) == t <= 1

\* `_tries -= 1; if not _tries: raise`
Exhausted(t) == t = 0

\* A delay that grows by the backoff instead of being multiplied by it.
NextDelayAdded(d) == d + Backoff

\* `_delay *= backoff`
NextDelay(d) == d * Backoff

\* A budget that a call inherits from the previous call's loop.
StartTriesInherited(t) == IF t = 0 THEN Tries ELSE t

\* `_tries, _delay = tries, delay` on every call of the decorated function.
StartTries(t) == Tries
StartDelay(d) == Delay

\* A handler in main() that goes on to load() whatever extract() raised.
HandledThenLoad == "load"

\* main() and extract() have no handler: an exception leaves main().
Unhandled == "raised"

\* ------------------------------------------------------------ the APIs
\* The sensor objects the Purple API is taken to return.
ValidSensor ==
  [primary_id_a |-> JInt("1"), primary_key_a |-> JStr("KA"),
   primary_id_b |-> JInt("3"), primary_key_b |-> JStr("KB"),
   secondary_id_a |-> JInt("2"), secondary_key_a |-> JStr("LA"),
   secondary_id_b |-> JInt("4"), secondary_key_b |-> JStr("LB")]

WithExtra(s) ==
  [k \in (DOMAIN s) \cup {"sensor_index"} |->
     IF k = "sensor_index" THEN JInt("20957") ELSE s[k]]

Without(s, k) == [j \in (DOMAIN s) \ {k} |-> s[j]]

SensorObjects ==
  {ValidSensor, WithExtra(ValidSensor),
   [ValidSensor EXCEPT !["primary_id_a"] = JStr("1")],
   [ValidSensor EXCEPT !["secondary_key_b"] = JStr("")]}
  \cup {Without(WithExtra(ValidSensor), k) : k \in Params}

PurpleResponses ==
  {[kind |-> "transport", body |-> EmptyDict],
   [kind |-> "status", body |-> EmptyDict],
   [kind |-> "invalid_json", body |-> EmptyDict],
   [kind |-> "json", body |-> [k \in {"api_version"} |-> JStr("V1")]]}
  \cup {[kind |-> "json", body |-> [k \in {"sensor"} |-> s]] : s \in SensorObjects}

\* The feed elements of a channel, and the response bodies for a channel URL.
FeedElements(n) == [i \in 1..n |-> [entry_id |-> ToString(i), field1 |-> "12"]]

ChannelOf(url) == [name |-> "channel" \o url.id, field1 |-> "PM2.5"]

ChannelBodies(url) ==
  {[channel |-> ChannelOf(url), feeds |-> FeedElements(n)] : n \in 0..MaxFeeds}
  \cup {[feeds |-> FeedElements(1)],
        [channel |-> [field1 |-> "PM2.5"], feeds |-> FeedElements(1)],
        [channel |-> ChannelOf(url)]}

ChannelResponses(url) ==
  {[kind |-> "transport", body |-> EmptyDict],
   [kind |-> "status", body |-> EmptyDict],
   [kind |-> "invalid_json", body |-> EmptyDict]}
  \cup {[kind |-> "json", body |-> b] : b \in ChannelBodies(url)}

\* ----------------------------------------------------- the run of main()
NoResponse == [kind |-> "none", body |-> EmptyDict]

PipelineInit ==
  /\ pc = "start"
  /\ tries = 0
  /\ delay = 0
  /\ response = NoResponse
  /\ sensor = EmptyDict
  /\ thingspeak = EmptyDict
  /\ idx = 0
  /\ extracted = <<>>
  /\ error = "none"
  /\ result = "none"
  /\ load_calls = 0
  /\ fetched = <<>>
  /\ nreq = 0
  /\ succeeded = 0
  /\ attempts = 0
  /\ sleeps = <<>>
  /\ log = <<>>
  /\ returned = EmptyDict

Init ==
  /\ PipelineInit
  /\ response_in = EmptyDict
  /\ feeds_out = [exc |-> "pending", val |-> <<>>]

\* What the retry loop does when the body raised exc: re-raise when the exception
\* is not caught or the tries are used up, else sleep and multiply the delay.
RetryFailure(exc, retry_pc) ==
  IF ~Caught(exc) \/ Exhausted(tries - 1)
  THEN /\ pc' = Unhandled
       /\ error' = exc
       /\ tries' = IF Caught(exc) THEN tries - 1 ELSE tries
       /\ UNCHANGED <<delay, sleeps>>
  ELSE /\ pc' = retry_pc
       /\ tries' = tries - 1
       /\ sleeps' = Append(sleeps, delay)
       /\ delay' = NextDelay(delay)
       /\ UNCHANGED error

\* extract() calls get_keys_from_purple(): the decorator starts its loop.
CallGetKeys ==
  /\ pc = "start"
  /\ pc' = "get_keys"
  /\ tries' = StartTries(tries)
  /\ delay' = StartDelay(delay)
  /\ attempts' = 0
  /\ sleeps' = <<>>
  /\ log' = <<>>
  /\ response' = NoResponse
  /\ UNCHANGED <<sensor, thingspeak, idx, extracted, error, result, load_calls,
                 fetched, nreq, succeeded, returned, response_in, feeds_out>>

\* One pass of the retry loop around get_keys_from_purple.
KeysAttempt(resp) ==
  /\ pc = "get_keys"
  /\ attempts' = attempts + 1
  /\ response' = resp
  /\ log' = log \o GetKeysLog(resp)
  /\ fetched' = IF attempts = 0 THEN Append(fetched, PurpleUrl) ELSE fetched
  /\ nreq' = nreq + 1
  /\ succeeded' = IF GetKeysBody(resp).exc = "none" THEN succeeded + 1 ELSE succeeded
  /\ IF GetKeysBody(resp).exc = "none"
     THEN /\ sensor' = GetKeysBody(resp).val
          /\ pc' = "from_dict"
          /\ UNCHANGED <<tries, delay, sleeps, error>>
     ELSE /\ RetryFailure(GetKeysBody(resp).exc, "get_keys")
          /\ UNCHANGED sensor
  /\ UNCHANGED <<thingspeak, idx, extracted, result, load_calls, returned,
                 response_in, feeds_out>>

\* ThingSpeak.from_dict(purple_air_response), then the start of thingspeak.feeds.
FromDict ==
  /\ pc = "from_dict"
  /\ IF InitAccepts(FromDictKwargs(sensor))
     THEN /\ thingspeak' = FromDictKwargs(sensor)
          /\ pc' = "feeds"
          /\ idx' = 1
          /\ extracted' = <<>>
          /\ UNCHANGED error
     ELSE /\ pc' = Unhandled
          /\ error' = "TypeError"
          /\ UNCHANGED <<thingspeak, idx, extracted>>
  /\ UNCHANGED <<tries, delay, response, sensor, result, load_calls, fetched,
                 nreq, succeeded, attempts, sleeps, log, returned, response_in, feeds_out>>

\* ThingSpeak.feeds calls self.get_feed(url) for the next url.
CallGetFeed ==
  /\ pc = "feeds"
  /\ idx <= Len(Urls(thingspeak))
  /\ pc' = "get_feed"
  /\ tries' = StartTries(tries)
  /\ delay' = StartDelay(delay)
  /\ attempts' = 0
  /\ sleeps' = <<>>
  /\ log' = <<>>
  /\ response' = NoResponse
  /\ UNCHANGED <<sensor, thingspeak, idx, extracted, error, result, load_calls,
                 fetched, nreq, succeeded, returned, response_in, feeds_out>>

\* One pass of the retry loop around get_feed(url).
FeedAttempt(resp) ==
  /\ pc = "get_feed"
  /\ attempts' = attempts + 1
  /\ response' = resp
  /\ log' = log \o GetFeedLog(resp)
  /\ fetched' = IF attempts = 0 THEN Append(fetched, Urls(thingspeak)[idx]) ELSE fetched
  /\ nreq' = nreq + 1
  /\ succeeded' = IF GetFeedBody(resp).exc = "none" THEN succeeded + 1 ELSE succeeded
  /\ IF GetFeedBody(resp).exc = "none"
     THEN /\ extracted' = extracted \o GetFeedBody(resp).val
          /\ returned' = MergeDict(returned,
                           [k \in {Urls(thingspeak)[idx].id} |-> resp.body["feeds"]])
          /\ idx' = idx + 1
          /\ pc' = "feeds"
          /\ UNCHANGED <<tries, delay, sleeps, error>>
     ELSE /\ RetryFailure(GetFeedBody(resp).exc, "get_feed")
          /\ UNCHANGED <<extracted, returned, idx>>
  /\ UNCHANGED <<sensor, thingspeak, result, load_calls, response_in, feeds_out>>

\* thingspeak.feeds is complete: extract() returns to main().
ExtractReturn ==
  /\ pc = "feeds"
  /\ idx > Len(Urls(thingspeak))
  /\ pc' = "load"
  /\ UNCHANGED <<tries, delay, response, sensor, thingspeak, idx, extracted, error,
                 result, load_calls, fetched, nreq, succeeded, attempts, sleeps, log,
                 returned, response_in, feeds_out>>

\* main() calls load(extracted), which raises or returns, and returns "Success".
Load(ok) ==
  /\ pc = "load"
  /\ load_calls' = load_calls + 1
  /\ IF ok
     THEN /\ pc' = "done"
          /\ result' = "Success"
          /\ UNCHANGED error
     ELSE /\ pc' = Unhandled
          /\ error' = "LoadError"
          /\ UNCHANGED result
  /\ UNCHANGED <<tries, delay, response, sensor, thingspeak, idx, extracted,
                 fetched, nreq, succeeded, attempts, sleeps, log, returned, response_in, feeds_out>>

Next ==
  \/ CallGetKeys
  \/ \E resp \in PurpleResponses : KeysAttempt(resp)
  \/ FromDict
  \/ CallGetFeed
  \/ /\ pc = "get_feed"
     /\ \E resp \in ChannelResponses(Urls(thingspeak)[idx]) : FeedAttempt(resp)
  \/ ExtractReturn
  \/ \E ok \in BOOLEAN : Load(ok)

Spec == Init /\ [][Next]_vars

\* ------------------------------------------- get_feed's reshaping alone
\* Channel objects with any of these keys beside `name` (or without `name`), each
\* key with a value of its own, and feed elements that do or do not have a key of
\* the channel's metadata.
ChannelKeys == {"field1", "field2", "field", "field0", "field_count", "fieldX", "fiel", "id"}

RichChannels ==
  {[k \in ks \cup {"name"} |-> IF k = "name" THEN "X" ELSE "v_" \o k] : ks \in SUBSET ChannelKeys}
  \cup {[k \in {"field1"} |-> "v_field1"]}

RichFeedElements ==
  {[entry_id |-> "1", field1 |-> "12"],
   [entry_id |-> "2", name |-> "from_feed"],
   [entry_id |-> "3", field1_name |-> "from_feed"]}

RichFeeds == UNION {[1..n -> RichFeedElements] : n \in 0..MaxFeeds}

RichBodies == {[channel |-> c, feeds |-> f] : c \in RichChannels, f \in RichFeeds}

InitFeed ==
  /\ PipelineInit
  /\ response_in \in RichBodies
  /\ feeds_out = [exc |-> "pending", val |-> <<>>]

\* Lines 54-62 of get_feed on a response that parsed as response_in.
Reshape ==
  /\ feeds_out.exc = "pending"
  /\ feeds_out' = GetFeedBody([kind |-> "json", body |-> response_in])
  /\ UNCHANGED <<pc, tries, delay, response, sensor, thingspeak, idx, extracted, error,
                 result, load_calls, fetched, nreq, succeeded, attempts, sleeps, log,
                 returned, response_in>>

NextFeed == Reshape

SpecFeed == InitFeed /\ [][NextFeed]_vars

\* ------------------------------------------------------------ the claims
\* Words for the history of the fetch that is running or ran last.
FetchErrors == {"ConnectionError", "HTTPError", "JSONDecodeError", "KeyError"}
Retrying == pc \in {"get_keys", "get_feed"}
LastUrl == fetched[Len(fetched)]
LastReturned == attempts >= 1 /\ succeeded = Len(fetched)
LastFailed == attempts >= 1 /\ succeeded < Len(fetched)
RaisedByFetch == pc = "raised" /\ error \in FetchErrors
Count(seq, x) == Cardinality({i \in 1..Len(seq) : seq[i] = x})
Last(seq, n) == SubSeq(seq, Len(seq) - n + 1, Len(seq))

\* C1: a fetch (get_keys_from_purple or get_feed) whose first two attempts failed
\* and whose third succeeded returns what the third attempt's response gives and
\* raises nothing; a fetch raises only after 3 failed attempts of its own.
C1_ThirdAttemptReturns ==
  /\ (LastReturned /\ attempts = 3) =>
       /\ error \notin FetchErrors
       /\ tries = 1
       /\ LastUrl.api = "purpleair" => sensor = response.body["sensor"]
       /\ LastUrl.api = "thingspeak" =>
            /\ Len(extracted) >= Len(response.body["feeds"])
            /\ Last(extracted, Len(response.body["feeds"])) = FeedsOf(response.body)
            /\ \A i \in 1..Len(response.body["feeds"]) :
                 /\ FeedsOf(response.body)[i]["entry_id"] = response.body["feeds"][i]["entry_id"]
                 /\ FeedsOf(response.body)[i]["name"] = response.body["channel"]["name"]
  /\ RaisedByFetch => (attempts = 3 /\ LastFailed)
  /\ (LastFailed /\ attempts < 3) => (Retrying /\ error = "none")

C1_Witness ==
  /\ LastReturned /\ attempts = 3
  /\ LastUrl.api = "thingspeak"
  /\ Len(response.body["feeds"]) = 2
  /\ nreq = 6
  /\ idx = 2

\* C2: when a fetch has failed on 3 consecutive attempts, the error leaves main(),
\* load() has not been and is never called, and "Success" is not returned.
C2_ExhaustedFetchAborts ==
  /\ (LastFailed /\ attempts = 3) =>
       (pc = "raised" /\ error \in FetchErrors /\ load_calls = 0 /\ result = "none")
  /\ error \in FetchErrors => (pc = "raised" /\ load_calls = 0 /\ result = "none")
  /\ pc = "raised" => (result = "none" /\ error # "none")

C2_Witness ==
  /\ LastFailed /\ attempts = 3
  /\ pc = "raised"
  /\ idx = 3
  /\ Len(extracted) = 4

\* The channels in the order primary-A, secondary-A, primary-B, secondary-B, what
\* the API returned for each, and the records that makes.
ChannelOrder == <<"primary_id_a", "secondary_id_a", "primary_id_b", "secondary_id_b">>
ReturnedBy(i) == returned[Format(sensor[ChannelOrder[i]])]
ExpectedOf(i) ==
  [j \in 1..Len(ReturnedBy(i)) |->
     <<"channel" \o Format(sensor[ChannelOrder[i]]), ReturnedBy(i)[j]>>]
ActualRecords ==
  [p \in 1..Len(extracted) |->
     <<extracted[p]["name"],
       [k \in {"entry_id", "field1"} |-> extracted[p][k]]>>]

\* C3: when extract() has returned, its list is the records of primary-A, then of
\* secondary-A, then of primary-B, then of secondary-B, each channel's in the
\* order of the API's `feeds` array, k1+k2+k3+k4 records in all.
C3_ExtractConcatenates ==
  pc \in {"load", "done"} =>
    /\ Len(extracted) =
         Len(ReturnedBy(1)) + Len(ReturnedBy(2)) + Len(ReturnedBy(3)) + Len(ReturnedBy(4))
    /\ ActualRecords = ExpectedOf(1) \o ExpectedOf(2) \o ExpectedOf(3) \o ExpectedOf(4)
    /\ \A p \in 1..Len(extracted) : DOMAIN extracted[p] = {"name", "field1_name", "entry_id", "field1"}

C3_Witness ==
  /\ pc = "load"
  /\ Len(ReturnedBy(1)) = 2
  /\ Len(ReturnedBy(2)) = 0
  /\ Len(ReturnedBy(3)) = 1
  /\ Len(ReturnedBy(4)) = 2
  /\ Len(extracted) = 5

\* The last response had a 2xx status and parsed as JSON but lacks a required
\* field: one the retried body reads, or one from_dict needs.
LacksKeyedField ==
  /\ attempts >= 1
  /\ response.kind = "json"
  /\ \/ LastUrl.api = "purpleair" /\ "sensor" \notin DOMAIN response.body
     \/ /\ LastUrl.api = "thingspeak"
        /\ \/ "channel" \notin DOMAIN response.body
           \/ "feeds" \notin DOMAIN response.body
           \/ "name" \notin DOMAIN response.body["channel"]
LacksCredential ==
  /\ attempts >= 1
  /\ response.kind = "json"
  /\ LastUrl.api = "purpleair"
  /\ "sensor" \in DOMAIN response.body
  /\ ~(Params \subseteq DOMAIN response.body["sensor"])

FetchOver == LastReturned \/ RaisedByFetch

\* C5 as stated: a fetch that is over has emitted exactly one debug entry before
\* it and, when it returned, exactly one after it, whatever its attempts.
C5_OneLogPairPerFetch ==
  FetchOver =>
    /\ Count(log, "fetching") = 1
    /\ LastReturned => Count(log, "retrieved") = 1

\* C5 as amended: the entry before is emitted once per attempt; get_feed emits the
\* entry after exactly once, when it returns, and never when it fails;
\* get_keys_from_purple emits the entry after in every attempt whose response
\* passed raise_for_status(), at least once when it returns.
C5_LogPerAttempt ==
  /\ Count(log, "fetching") = attempts
  /\ Len(log) = Count(log, "fetching") + Count(log, "retrieved")
  /\ (attempts >= 1 /\ LastUrl.api = "thingspeak") =>
       /\ Count(log, "retrieved") = IF LastReturned THEN 1 ELSE 0
       /\ LastReturned => log[Len(log)] = "retrieved"
  /\ (attempts >= 1 /\ LastUrl.api = "purpleair") =>
       /\ Count(log, "retrieved") <= attempts
       /\ LastReturned => Count(log, "retrieved") >= 1
       /\ (log[Len(log)] = "retrieved") <=> (response.kind \in {"invalid_json", "json"})

C5_Witness ==
  /\ LastReturned
  /\ LastUrl.api = "thingspeak"
  /\ attempts = 3
  /\ log = <<"fetching", "fetching", "fetching", "retrieved">>

\* The sensor object has all four pairs, each id an integer and each key a
\* non-empty string.
WellTyped(s) ==
  /\ Params \subseteq DOMAIN s
  /\ \A k \in {"primary_id_a", "primary_id_b", "secondary_id_a", "secondary_id_b"} :
       s[k].t = "int"
  /\ \A k \in {"primary_key_a", "primary_key_b", "secondary_key_a", "secondary_key_b"} :
       s[k].t = "str" /\ s[k].v # ""

\* C6 as stated: a ThingSpeak instance exists only when the sensor object has all
\* four pairs, each well-typed, and a failed construction is followed by no
\* channel fetch.
C6_ConstructionChecksTypes ==
  /\ DOMAIN thingspeak # {} => WellTyped(sensor)
  /\ (pc = "raised" /\ error = "TypeError") => Len(fetched) = 1

\* C9: within a fetch the waits are 1 before the 2nd attempt and 5 before the 3rd,
\* none before the 1st and none after the 3rd failure, and a new fetch starts from
\* the base delay again.
C9_DelaysBackOff ==
  /\ sleeps \in {<<>>, <<1>>, <<1, 5>>}
  /\ Len(sleeps) = IF Retrying THEN attempts ELSE IF attempts = 0 THEN 0 ELSE attempts - 1
  /\ (Retrying /\ attempts = 0) => delay = 1
  /\ (Retrying /\ attempts = 1) => delay = 5

C9_Witness ==
  /\ pc = "feeds"
  /\ idx = 3
  /\ sleeps = <<1, 5>>
  /\ nreq = 9

\* The i-th URL of a run, from the sensor object's fields by name.
ExpectedUrl(i) ==
  IF i = 1 THEN PurpleUrl
  ELSE [api |-> "thingspeak",
        id |-> Format(sensor[ChannelOrder[i - 1]]),
        key |-> Format(sensor[
                  <<"primary_key_a", "secondary_key_a", "primary_key_b", "secondary_key_b">>[i - 1]])]

\* C10: the URLs are requested in the order registry, primary-A, secondary-A,
\* primary-B, secondary-B, a URL's first request only after every earlier fetch
\* returned; every fetch has 3 attempts of its own, so a run issues at most 15
\* requests; nothing is requested after a fetch has used its 3 attempts.
C10_SequentialOwnBudget ==
  /\ Len(fetched) <= 5
  /\ \A i \in 1..Len(fetched) : fetched[i] = ExpectedUrl(i)
  /\ Len(fetched) <= succeeded + 1
  /\ succeeded <= Len(fetched)
  /\ attempts <= 3
  /\ Len(fetched) <= nreq
  /\ nreq <= 3 * Len(fetched)
  /\ nreq <= 15
  /\ Retrying => tries = 3 - attempts
  /\ RaisedByFetch => (attempts = 3 /\ succeeded = Len(fetched) - 1)
  /\ pc \in {"load", "done"} => succeeded = 5

C10_Witness ==
  /\ pc = "done"
  /\ nreq = 15
  /\ Len(fetched) = 5

\* get_feed's reshaping of one response has returned.
Reshaped == feeds_out.exc = "none"
Channel == response_in["channel"]

\* C7: get_feed returns one record per element of `feeds`, in order, each the
\* merge of the channel name, the field-name metadata and the feed element, the
\* feed element's value standing on every key it shares with the metadata.
C7_FeedElementWins ==
  Reshaped =>
    /\ Len(feeds_out.val) = Len(response_in["feeds"])
    /\ \A i \in 1..Len(feeds_out.val) :
         /\ DOMAIN feeds_out.val[i] =
              (DOMAIN response_in["feeds"][i]) \cup (DOMAIN FieldNames(Channel)) \cup {"name"}
         /\ \A k \in DOMAIN feeds_out.val[i] :
              feeds_out.val[i][k] =
                IF k \in DOMAIN response_in["feeds"][i] THEN response_in["feeds"][i][k]
                ELSE IF k = "name" THEN Channel["name"]
                ELSE FieldNames(Channel)[k]

C7_Witness ==
  /\ Reshaped
  /\ Len(feeds_out.val) = 2
  /\ "field1" \in DOMAIN Channel
  /\ "name" \in DOMAIN response_in["feeds"][1]
  /\ feeds_out.val[1]["name"] = "from_feed"
  /\ "field1_name" \in DOMAIN response_in["feeds"][2]
  /\ feeds_out.val[2]["field1_name"] = "from_feed"
  /\ feeds_out.val[2]["name"] = "X"

\* k is field<N>, N a positive integer in decimal.
Digits == {"0", "1", "2", "3", "4", "5", "6", "7", "8", "9"}
IsFieldN(k) ==
  /\ Len(k) > 5
  /\ SubSeq(k, 1, 5) = "field"
  /\ \A i \in 6..Len(k) : SubSeq(k, i, i) \in Digits
  /\ SubSeq(k, 6, 6) # "0"

\* C8: the metadata has a key <k>_name exactly for the channel keys k of the form
\* field<N>, N a positive integer.
C8_OnlyNumberedFields ==
  Reshaped =>
    /\ DOMAIN FieldNames(Channel) = {k \o "_name" : k \in {c \in DOMAIN Channel : IsFieldN(c)}}
    /\ \A i \in 1..Len(feeds_out.val) :
         DOMAIN feeds_out.val[i] =
           (DOMAIN response_in["feeds"][i]) \cup {"name"}
           \cup {k \o "_name" : k \in {c \in DOMAIN Channel : IsFieldN(c)}}
====
